---------------------------- MODULE Spec2Model ----------------------------
(***************************************************************************)
(* A model of the smart-crop application: the crop geometry                *)
(* (calculateSmartCrop), the renderer (performCrop), the detection service *)
(* (detectGarment), the crop editor (CropEditor) and the App component     *)
(* that sequences upload -> detect -> crop -> render.                      *)
(*                                                                         *)
(* Numbers.  The program computes in JavaScript doubles.  The model        *)
(* computes in exact fixed point: every pixel quantity is an integer       *)
(* number of 1/Unit pixels, with Unit chosen so that every division the    *)
(* code performs (/1000, /2, *1.1) is exact on the inputs of the model.    *)
(* Rounding of doubles is outside the model.                               *)
(*                                                                         *)
(* Strings that the code inspects character by character (file names,      *)
(* colors) are sequences of one-character strings.                         *)
(***************************************************************************)
EXTENDS Integers, Sequences, FiniteSets, TLC

(***************************************************************************)
(* null                                                                    *)
(***************************************************************************)
Null == [null |-> TRUE]

(***************************************************************************)
(* Program constants                                                       *)
(***************************************************************************)
\* box coordinates are normalised to 0..1000 (imageHelpers: box.ymin / 1000)
NormScale == 1000
\* paddingPercent = 0.1, kept as the fraction PadNum / PadDen
PadNum == 1
PadDen == 10
\* the output size App passes to performCrop
OutputSize == 1024
\* the slider's min attribute
SliderMin == 100

\* sub-pixel units per pixel: /1000, /2 and /10 are exact
Unit == 2 * PadDen * NormScale

Px(n) == n * Unit

Max(a, b) == IF a >= b THEN a ELSE b

(***************************************************************************)
(* Bounds of the model                                                     *)
(***************************************************************************)
\* tasks (upload pipelines and manual renders) started in one behaviour
MaxTasks == 2
\* changes of the crop made in one editor opened from the App
MaxEdits == 1
\* changes of the crop made in the editor explored on its own
MaxSoloEdits == 2

(***************************************************************************)
(* Geometry: calculateSmartCrop                                            *)
(***************************************************************************)
Rect(x, y, size) == [x |-> x, y |-> y, size |-> size]

Box(ymin, xmin, ymax, xmax) ==
  [ymin |-> ymin, xmin |-> xmin, ymax |-> ymax, xmax |-> xmax]

\* (v / 1000) * dim, in sub-pixel units
ToPixels(v, dim) == v * dim * (Unit \div NormScale)

\* a variant of Padded that applies no padding (not the program's)
Padded_NoPadding(baseSize) == baseSize

\* a size with the padding applied: baseSize * (1 + paddingPercent)
Padded(baseSize) == (baseSize * (PadDen + PadNum)) \div PadDen

\* a variant of BaseSize that takes the width alone (not the program's)
BaseSize_Width(width, height) == width

\* the largest dimension of the box
BaseSize(width, height) == Max(width, height)

calculateSmartCrop(box, imgWidth, imgHeight) ==
  LET rawYmin == ToPixels(box.ymin, imgHeight)
      rawXmin == ToPixels(box.xmin, imgWidth)
      rawYmax == ToPixels(box.ymax, imgHeight)
      rawXmax == ToPixels(box.xmax, imgWidth)
      width   == rawXmax - rawXmin
      height  == rawYmax - rawYmin
      centerX == rawXmin + width \div 2
      centerY == rawYmin + height \div 2
      size    == Padded(BaseSize(width, height))
  IN  Rect(centerX - size \div 2, centerY - size \div 2, size)

(***************************************************************************)
(* Strings: the file name and the download name                            *)
(***************************************************************************)
Lower == {"a","b","c","d","e","f","g","h","i","j","k","l","m",
          "n","o","p","q","r","s","t","u","v","w","x","y","z"}
Upper == {"A","B","C","D","E","F","G","H","I","J","K","L","M",
          "N","O","P","Q","R","S","T","U","V","W","X","Y","Z"}
Digit == {"0","1","2","3","4","5","6","7","8","9"}

\* the character class [a-zA-Z0-9-]
IsNameChar(c) == c \in Lower \cup Upper \cup Digit \cup {"-"}

\* name.replace(/\.[^/.]+$/, ""): the match can only start at the last ".",
\* needs at least one character after it, and none of them may be "/"
StripExtension(name) ==
  LET dots == {i \in 1..Len(name) : name[i] = "."}
  IN  IF dots = {} THEN name
      ELSE LET last == CHOOSE i \in dots : \A j \in dots : j <= i
           IN  IF last < Len(name)
                  /\ \A j \in (last + 1)..Len(name) : name[j] # "/"
               THEN SubSeq(name, 1, last - 1)
               ELSE name

\* color.replace(/[^a-zA-Z0-9-]/g, '')
Sanitize(color) == SelectSeq(color, IsNameChar)


\* `${originalFileName}${colorPart}.jpg`; colorPart is empty when there are
\* no details or the color is falsy (absent or the empty string)
DownloadName(fileName, details) ==
  LET colorPart ==
        IF details # Null /\ "color" \in DOMAIN details /\ details.color # <<>>
        THEN <<"_">> \o Sanitize(details.color)
        ELSE <<>>
  IN  fileName \o colorPart \o <<".", "j", "p", "g">>

(***************************************************************************)
(* Promise outcomes and errors                                             *)
(***************************************************************************)
Resolved(v) == [ok |-> TRUE, value |-> v]
Rejected(e) == [ok |-> FALSE, error |-> e]

\* an Error object; loadImage and fileToBase64 reject with an event, which
\* has no message
Text(m) == [text |-> m]
Error(m) == [message |-> Text(m)]
ErrorEvent == [message |-> Null]

MsgDetectFailed ==
  "Failed to detect garment details. Please try a clearer image."
MsgNoData == "No data returned from Gemini"
MsgSyntaxError == "SyntaxError: Unexpected token in JSON"
MsgNoContext == "Could not get canvas context"
MsgLoadFile == "Failed to load image file."
MsgProcess == "Failed to process image."
MsgManual == "Failed to apply manual crop"
MsgTypeError == "TypeError: Cannot read properties"

(***************************************************************************)
(* Detection: detectGarment                                                *)
(*                                                                         *)
(* The remote call either throws, or returns a response whose text is      *)
(* empty, is not JSON, or parses to a value.                               *)
(***************************************************************************)
RemoteThrows(m) == [kind |-> "throw", error |-> Error(m)]
RemoteEmpty == [kind |-> "empty"]
RemoteGarbage == [kind |-> "garbage"]
RemoteJson(v) == [kind |-> "json", value |-> v]

\* a variant of DetectCatch that rethrows what it caught (not the program's)
DetectCatch_Rethrow(error) == error

\* the catch block: log the error, throw the generic one
DetectCatch(error) == Error(MsgDetectFailed)

detectGarment(response) ==
  CASE response.kind = "throw"   -> Rejected(DetectCatch(response.error))
    [] response.kind = "empty"   -> Rejected(DetectCatch(Error(MsgNoData)))
    [] response.kind = "garbage" -> Rejected(DetectCatch(Error(MsgSyntaxError)))
    [] response.kind = "json"    -> Resolved(response.value)

(***************************************************************************)
(* Rendering: performCrop, after its loadImage has settled                 *)
(*                                                                         *)
(* env.decodes: the image decoded; env.context: getContext('2d') gave a    *)
(* context (asked for only once the image has decoded).  The data URL is   *)
(* identified by what determines it.                                       *)
(***************************************************************************)
DataUrl(image, crop, outputSize) ==
  [image |-> image, crop |-> crop, size |-> outputSize]

performCrop(image, crop, outputSize, env) ==
  IF ~env.decodes THEN Rejected(ErrorEvent)
  ELSE IF ~env.context THEN Rejected(Error(MsgNoContext))
  ELSE Resolved(DataUrl(image, crop, outputSize))

RenderEnvs ==
  {[decodes |-> TRUE, context |-> TRUE], [decodes |-> TRUE, context |-> FALSE],
   [decodes |-> FALSE, context |-> FALSE]}

(***************************************************************************)
(* Inputs of the model                                                     *)
(***************************************************************************)
\* the content of a file once read (the data URL) and, once decoded, its
\* natural size
Image(id, w, h) == [id |-> id, w |-> w, h |-> h]
File(name, image) == [name |-> name, image |-> image]

PhotoPng == File(<<"p","h","o","t","o",".","p","n","g">>,
                 Image("photo", 1000, 1000))
ShirtJpeg == File(<<"m","y",".","s","h","i","r","t",".","j","p","e","g">>,
                  Image("shirt", 400, 200))
Files == {PhotoPng, ShirtJpeg}

NavyBlue == <<"N","a","v","y"," ","B","l","u","e","!">>

ExampleBox == Box(100, 200, 500, 600)
GarmentBox == Box(50, 100, 950, 700)

\* what the response text may parse to: a complete record, a record without
\* textureBox, and JSON null
DetailsFull ==
  [box |-> GarmentBox, textureBox |-> ExampleBox,
   texture |-> "knit", color |-> NavyBlue]
DetailsNoTexture ==
  [box |-> GarmentBox, texture |-> "denim", color |-> <<>>]
Responses ==
  {RemoteThrows("503 Service Unavailable"), RemoteEmpty, RemoteGarbage,
   RemoteJson(DetailsFull), RemoteJson(DetailsNoTexture), RemoteJson(Null)}

Point(x, y) == [x |-> x, y |-> y]
\* pointer positions (clientX, clientY) of mouse-down and of mouse-move, and
\* slider values (whole pixels)
DownPoints == {Point(0, 0)}
MovePoints == {Point(10, 10)}
SliderValues == {440}
\* the displayed width of an image of natural width w (rect.width): shown
\* at natural size, at half of it, or not laid out
RectWidth(w, shown) ==
  CASE shown = "natural" -> w
    [] shown = "half"    -> w \div 2
    [] shown = "none"    -> 0
Layouts == {"half"}

(***************************************************************************)
(* State                                                                   *)
(***************************************************************************)
VARIABLES
  appState,          \* App: useState<AppState>
  sourceImage,       \* App: the data URL of the upload, or null
  croppedImage,      \* App: the rendered data URL, or null
  garmentDetails,    \* App: the detection result, or null
  currentCrop,       \* App: the committed CropRect, or null
  errorMsg,          \* App: the error message, or null
  originalFileName,  \* App: the upload's name without extension
  tasks,             \* the async functions in flight, in the order they
                     \* were started, each with the await it is suspended at
  started,           \* how many were started (bounds the model)
  editor,            \* the mounted CropEditor's state and refs, or null
  last               \* the step taken last (an observation, not program state)

vars == <<appState, sourceImage, croppedImage, garmentDetails, currentCrop,
          errorMsg, originalFileName, tasks, started, editor, last>>

app == <<appState, sourceImage, croppedImage, garmentDetails, currentCrop,
         errorMsg, originalFileName>>

DefaultFileName == <<"s","m","a","r","t","-","c","r","o","p">>

\* the record of a step: the handler or continuation that ran, the task it
\* belongs to (Null: none) as the step left it, whether the step was a
\* failure of that task, and the step's input
Step(op, task, failed, arg) ==
  [op |-> op, task |-> task, failed |-> failed, arg |-> arg]

NoStep == Step("init", Null, FALSE, Null)

RemoveAt(seq, i) == SubSeq(seq, 1, i - 1) \o SubSeq(seq, i + 1, Len(seq))

(***************************************************************************)
(* The editor overlay: mounted exactly while                               *)
(* appState === EDITING && sourceImage && currentCrop                      *)
(***************************************************************************)
EditorShown(as, si, cc) == as = "EDITING" /\ si # Null /\ cc # Null

\* useState(initialCrop), the three refs, imgElement; left is the number
\* of changes of the crop the model still allows; committed is what the App
\* held when the editor was mounted (an observation)
NewEditor(initialCrop, output, budget) ==
  [crop |-> initialCrop, isDragging |-> FALSE,
   dragStart |-> Point(0, 0), startCropPos |-> Point(0, 0),
   imgElement |-> FALSE, left |-> budget,
   committed |-> [currentCrop |-> initialCrop, croppedImage |-> output]]

FreshEditor(initialCrop, output) == NewEditor(initialCrop, output, MaxEdits)

\* the editor after a render of App with the given state
Rendered(as, si, cc, output) ==
  IF EditorShown(as, si, cc)
  THEN IF editor # Null THEN editor ELSE FreshEditor(cc, output)
  ELSE Null

Render == editor' = Rendered(appState', sourceImage', currentCrop', croppedImage')

Init ==
  /\ appState = "IDLE"
  /\ sourceImage = Null
  /\ croppedImage = Null
  /\ garmentDetails = Null
  /\ currentCrop = Null
  /\ errorMsg = Null
  /\ originalFileName = DefaultFileName
  /\ tasks = <<>>
  /\ started = 0
  /\ editor = Null
  /\ last = NoStep

(***************************************************************************)
(* Tasks: the running async functions                                      *)
(*                                                                         *)
(* An upload task is one call of handleFileUpload with the processImage it *)
(* starts; pc is the await it is suspended at: "read" (fileToBase64),      *)
(* "detect" (detectGarment), "load" (loadImage), "render" (performCrop).   *)
(* A manual task is one call of handleManualCropConfirm, suspended at      *)
(* "render".  image is the closure's base64 / sourceImage, details and     *)
(* crop its locals.  detected, wrote (the appStates it has set, in order)  *)
(* and did (its milestones, in order) observe the task; prev is what the   *)
(* App had committed when a manual task started.  A task that ends leaves  *)
(* tasks.                                                                  *)
(***************************************************************************)
UploadTask(f) ==
  [kind |-> "upload", pc |-> "read", file |-> f, image |-> Null,
   detected |-> FALSE, details |-> Null, crop |-> Null, prev |-> Null,
   wrote |-> <<"ANALYZING">>, did |-> <<>>]

ManualTask(image, crop, prev) ==
  [kind |-> "manual", pc |-> "render", file |-> Null, image |-> image,
   detected |-> FALSE, details |-> Null, crop |-> crop, prev |-> prev,
   wrote |-> <<"CROPPING">>, did |-> <<"render">>]

\* the task as it ends, having set appState to state
Ended(t, state) ==
  [t EXCEPT !.pc = "done", !.wrote = Append(t.wrote, state)]

\* the catch block of processImage
ProcessCatch(err) ==
  [errorMsg |-> IF err.message # Null THEN err.message ELSE Text(MsgProcess),
   appState |-> "ERROR"]

\* the catch block of handleFileUpload
UploadCatch(err) == [errorMsg |-> Text(MsgLoadFile), appState |-> "ERROR"]

\* the catch block of handleManualCropConfirm: the message alone
ManualCatch(err) == [errorMsg |-> Text(MsgManual), appState |-> appState]

\* a variant of TargetBox that prefers the garment box (not the program's)
TargetBox_GarmentFirst(details) ==
  IF details = Null THEN Rejected(Error(MsgTypeError))
  ELSE IF "box" \in DOMAIN details THEN Resolved(details.box)
  ELSE IF "textureBox" \in DOMAIN details THEN Resolved(details.textureBox)
  ELSE Rejected(Error(MsgTypeError))

\* const targetBox = details.textureBox || details.box; reading a property
\* of null, or of the undefined targetBox, throws a TypeError
TargetBox(details) ==
  IF details = Null THEN Rejected(Error(MsgTypeError))
  ELSE IF "textureBox" \in DOMAIN details THEN Resolved(details.textureBox)
  ELSE IF "box" \in DOMAIN details THEN Resolved(details.box)
  ELSE Rejected(Error(MsgTypeError))

\* a variant of DetectedState that skips CROPPING (not the program's)
DetectedState_Success == "SUCCESS"

\* the appState processImage sets once detection has resolved
DetectedState == "CROPPING"

(***************************************************************************)
(* App: handleFileUpload and processImage                                  *)
(***************************************************************************)
\* the input is enabled in IDLE and ERROR only
handleFileUpload(f) ==
  /\ appState \in {"IDLE", "ERROR"}
  /\ started < MaxTasks
  /\ started' = started + 1
  /\ appState' = "ANALYZING"
  /\ croppedImage' = Null
  /\ garmentDetails' = Null
  /\ currentCrop' = Null
  /\ errorMsg' = Null
  /\ originalFileName' = StripExtension(f.name)
  /\ tasks' = Append(tasks, UploadTask(f))
  /\ UNCHANGED sourceImage
  /\ Render
  /\ last' = Step("upload", UploadTask(f), FALSE, f)

\* fileToBase64 settles
ReadSettle(i, ok) ==
  /\ i \in DOMAIN tasks
  /\ tasks[i].pc = "read"
  /\ IF ok
     THEN /\ sourceImage' = tasks[i].file.image
          /\ tasks' = [tasks EXCEPT ![i].pc = "detect",
                                    ![i].image = tasks[i].file.image]
          /\ UNCHANGED <<appState, errorMsg>>
          /\ last' = Step("read", tasks'[i], FALSE, ok)
     ELSE LET c == UploadCatch(ErrorEvent)
          IN  /\ errorMsg' = c.errorMsg
              /\ appState' = c.appState
              /\ tasks' = RemoveAt(tasks, i)
              /\ UNCHANGED sourceImage
              /\ last' = Step("read", Ended(tasks[i], c.appState), TRUE, ok)
  /\ UNCHANGED <<croppedImage, garmentDetails, currentCrop, originalFileName,
                 started>>
  /\ Render

\* detectGarment settles
DetectSettle(i, response) ==
  /\ i \in DOMAIN tasks
  /\ tasks[i].pc = "detect"
  /\ LET r == detectGarment(response)
     IN  IF r.ok
         THEN /\ garmentDetails' = r.value
              /\ appState' = DetectedState
              /\ tasks' = [tasks EXCEPT
                             ![i].pc = "load", ![i].details = r.value,
                             ![i].detected = TRUE,
                             ![i].wrote = Append(@, DetectedState),
                             ![i].did = Append(@, "detected")]
              /\ UNCHANGED errorMsg
              /\ last' = Step("detect", tasks'[i], FALSE, response)
         ELSE LET c == ProcessCatch(r.error)
              IN  /\ errorMsg' = c.errorMsg
                  /\ appState' = c.appState
                  /\ tasks' = RemoveAt(tasks, i)
                  /\ UNCHANGED garmentDetails
                  /\ last' = Step("detect", Ended(tasks[i], c.appState),
                                  TRUE, response)
  /\ UNCHANGED <<sourceImage, croppedImage, currentCrop, originalFileName,
                 started>>
  /\ Render

\* loadImage settles in processImage; then calculateSmartCrop, setCurrentCrop
\* and the call of performCrop
LoadSettle(i, decodes) ==
  /\ i \in DOMAIN tasks
  /\ tasks[i].pc = "load"
  /\ LET t == tasks[i]
         box == TargetBox(t.details)
         r == IF ~decodes THEN Rejected(ErrorEvent)
              ELSE IF ~box.ok THEN box
              ELSE Resolved(calculateSmartCrop(box.value, t.image.w, t.image.h))
     IN  IF r.ok
         THEN /\ currentCrop' = r.value
              /\ tasks' = [tasks EXCEPT
                             ![i].pc = "render", ![i].crop = r.value,
                             ![i].did = t.did \o <<"cropped", "render">>]
              /\ UNCHANGED <<appState, errorMsg>>
              /\ last' = Step("load", tasks'[i], FALSE, decodes)
         ELSE LET c == ProcessCatch(r.error)
              IN  /\ errorMsg' = c.errorMsg
                  /\ appState' = c.appState
                  /\ tasks' = RemoveAt(tasks, i)
                  /\ UNCHANGED currentCrop
                  /\ last' = Step("load", Ended(t, c.appState), TRUE, decodes)
  /\ UNCHANGED <<sourceImage, croppedImage, garmentDetails, originalFileName,
                 started>>
  /\ Render

\* performCrop settles, in processImage or in handleManualCropConfirm
RenderSettle(i, env) ==
  /\ i \in DOMAIN tasks
  /\ tasks[i].pc = "render"
  /\ LET t == tasks[i]
         r == performCrop(t.image, t.crop, OutputSize, env)
     IN  IF r.ok
         THEN /\ croppedImage' = r.value
              /\ appState' = "SUCCESS"
              /\ tasks' = RemoveAt(tasks, i)
              /\ UNCHANGED errorMsg
              /\ last' = Step("render",
                              Ended([t EXCEPT !.did = Append(@, "rendered")],
                                    "SUCCESS"),
                              FALSE, env)
         ELSE LET c == IF t.kind = "upload" THEN ProcessCatch(r.error)
                       ELSE ManualCatch(r.error)
              IN  /\ errorMsg' = c.errorMsg
                  /\ appState' = c.appState
                  /\ tasks' = RemoveAt(tasks, i)
                  /\ UNCHANGED croppedImage
                  /\ last' = Step("render",
                                  IF t.kind = "upload"
                                  THEN Ended(t, c.appState)
                                  ELSE [t EXCEPT !.pc = "done"],
                                  TRUE, env)
  /\ UNCHANGED <<sourceImage, garmentDetails, currentCrop, originalFileName,
                 started>>
  /\ Render

(***************************************************************************)
(* App: the buttons.  While the editor overlay is shown it covers the page *)
(* (fixed inset-0), so the buttons of the page are out of reach.           *)
(***************************************************************************)
\* "Adjust Crop", rendered while croppedImage is set
AdjustCrop ==
  /\ croppedImage # Null
  /\ editor = Null
  /\ appState' = "EDITING"
  /\ UNCHANGED <<sourceImage, croppedImage, garmentDetails, currentCrop,
                 errorMsg, originalFileName, tasks, started>>
  /\ Render
  /\ last' = Step("adjust", Null, FALSE, Null)

\* the editor's Cancel: onCancel = () => setAppState(SUCCESS)
Cancel ==
  /\ editor # Null
  /\ appState' = "SUCCESS"
  /\ UNCHANGED <<sourceImage, croppedImage, garmentDetails, currentCrop,
                 errorMsg, originalFileName, tasks, started>>
  /\ Render
  /\ last' = Step("cancel", Null, FALSE, Null)

\* the editor's Apply Crop: onConfirm(crop) = handleManualCropConfirm(crop),
\* up to its await of performCrop
handleManualCropConfirm ==
  /\ editor # Null
  /\ sourceImage # Null
  /\ started < MaxTasks
  /\ started' = started + 1
  /\ appState' = "CROPPING"
  /\ currentCrop' = editor.crop
  /\ tasks' = Append(tasks,
                ManualTask(sourceImage, editor.crop,
                           [currentCrop |-> currentCrop,
                            croppedImage |-> croppedImage]))
  /\ UNCHANGED <<sourceImage, croppedImage, garmentDetails, errorMsg,
                 originalFileName>>
  /\ Render
  /\ last' = Step("confirm", tasks'[Len(tasks')], FALSE, editor.crop)

\* the download button, enabled while croppedImage is set; the step records
\* link.download
handleDownload ==
  /\ croppedImage # Null
  /\ editor = Null
  /\ UNCHANGED <<app, tasks, started, editor>>
  /\ last' = Step("download", Null, FALSE,
                  DownloadName(originalFileName, garmentDetails))

\* the reset button (disabled in IDLE) and "Try Again"
handleReset ==
  /\ appState # "IDLE"
  /\ editor = Null
  /\ appState' = "IDLE"
  /\ sourceImage' = Null
  /\ croppedImage' = Null
  /\ garmentDetails' = Null
  /\ currentCrop' = Null
  /\ errorMsg' = Null
  /\ originalFileName' = DefaultFileName
  /\ UNCHANGED <<tasks, started>>
  /\ Render
  /\ last' = Step("reset", Null, FALSE, Null)

(***************************************************************************)
(* CropEditor                                                              *)
(***************************************************************************)
EditorStep(e) == /\ editor' = e
                 /\ UNCHANGED <<app, tasks, started>>

\* the overlay's <img> has loaded: setImgElement
onImgLoad ==
  /\ editor # Null
  /\ ~editor.imgElement
  /\ EditorStep([editor EXCEPT !.imgElement = TRUE])
  /\ last' = Step("imgload", Null, FALSE, Null)

\* mouse-down on the crop handle, which is displayed once imgElement is set
handleMouseDown(p) ==
  /\ editor # Null
  /\ editor.imgElement
  /\ EditorStep([editor EXCEPT
                   !.isDragging = TRUE, !.dragStart = p,
                   !.startCropPos = Point(editor.crop.x, editor.crop.y)])
  /\ last' = Step("mousedown", Null, FALSE, p)

\* a variant of Dragged that moves from the crop's current origin instead
\* of the anchor (not the program's)
Dragged_FromPrev(crop, anchor, start, p, naturalWidth, rectWidth) ==
  [crop EXCEPT
     !.x = crop.x + ((p.x - start.x) * naturalWidth * Unit) \div rectWidth,
     !.y = crop.y + ((p.y - start.y) * naturalWidth * Unit) \div rectWidth]

\* the crop a drag to pointer position p gives: the anchors plus the screen
\* delta times scale = naturalWidth / rect.width
Dragged(crop, anchor, start, p, naturalWidth, rectWidth) ==
  [crop EXCEPT
     !.x = anchor.x + ((p.x - start.x) * naturalWidth * Unit) \div rectWidth,
     !.y = anchor.y + ((p.y - start.y) * naturalWidth * Unit) \div rectWidth]

\* mousemove on the window while the editor is mounted
handleMouseMove(p, shown) ==
  /\ editor # Null
  /\ LET rectWidth == RectWidth(sourceImage.w, shown) IN
     IF ~editor.isDragging \/ ~editor.imgElement \/ rectWidth = 0
     THEN EditorStep(editor)
     ELSE /\ editor.left > 0
          /\ EditorStep([editor EXCEPT
                            !.crop = Dragged(editor.crop, editor.startCropPos,
                                             editor.dragStart, p,
                                             sourceImage.w, rectWidth),
                            !.left = @ - 1])
  /\ last' = Step("mousemove", Null, FALSE,
                  [p |-> p, rectWidth |-> RectWidth(sourceImage.w, shown)])

\* a variant of Released that leaves the drag on (not the program's)
Released_StillDragging(e) == e

\* isDragging.current = false
Released(e) == [e EXCEPT !.isDragging = FALSE]

\* mouseup on the window while the editor is mounted
handleMouseUp ==
  /\ editor # Null
  /\ EditorStep(Released(editor))
  /\ last' = Step("mouseup", Null, FALSE, Null)

\* a variant of Resized that pivots on the top-left corner (not the
\* program's)
Resized_TopLeft(crop, newSize) == Rect(crop.x, crop.y, newSize)

\* the crop after the slider is set to newSize (in sub-pixel units)
Resized(crop, newSize) ==
  LET oldCenter == crop.size \div 2
      newCenter == newSize \div 2
      offset == oldCenter - newCenter
  IN  Rect(crop.x + offset, crop.y + offset, newSize)

\* the slider, rendered once imgElement is set, from min = 100 to
\* max = max(naturalWidth, naturalHeight), in whole pixels
handleSizeChange(n) ==
  /\ editor # Null
  /\ editor.imgElement
  /\ editor.left > 0
  /\ SliderMin <= n
  /\ n <= Max(sourceImage.w, sourceImage.h)
  /\ EditorStep([editor EXCEPT !.crop = Resized(editor.crop, Px(n)),
                               !.left = @ - 1])
  /\ last' = Step("size", Null, FALSE, n)

(***************************************************************************)
(* The application                                                         *)
(***************************************************************************)
Next ==
  \/ \E f \in Files : handleFileUpload(f)
  \/ \E i \in DOMAIN tasks, ok \in BOOLEAN : ReadSettle(i, ok)
  \/ \E i \in DOMAIN tasks, r \in Responses : DetectSettle(i, r)
  \/ \E i \in DOMAIN tasks, decodes \in BOOLEAN : LoadSettle(i, decodes)
  \/ \E i \in DOMAIN tasks, env \in RenderEnvs : RenderSettle(i, env)
  \/ AdjustCrop
  \/ Cancel
  \/ handleManualCropConfirm
  \/ handleDownload
  \/ handleReset
  \/ onImgLoad
  \/ \E p \in DownPoints : handleMouseDown(p)
  \/ \E p \in MovePoints, shown \in Layouts : handleMouseMove(p, shown)
  \/ handleMouseUp
  \/ \E n \in SliderValues : handleSizeChange(n)

Spec == Init /\ [][Next]_vars

(***************************************************************************)
(* The crop derivation on a wide set of inputs: processImage from the      *)
(* point where detection has resolved, for every box over CropGrid and     *)
(* every image size over CropWidths x CropHeights.                         *)
(***************************************************************************)
CropGrid == {0, 1, 100, 200, 333, 500, 600, 1000}
CropWidths == {1, 640, 1000}
CropHeights == {1, 480, 1000}

CropBoxes ==
  {Box(ymin, xmin, ymax, xmax) : ymin \in CropGrid, xmin \in CropGrid,
                                 ymax \in CropGrid, xmax \in CropGrid}

DetailsWith(textureBox) == [DetailsFull EXCEPT !.textureBox = textureBox]

\* the upload task of file f once detection has resolved with details
DetectedTask(f, details) ==
  [UploadTask(f) EXCEPT
     !.pc = "load", !.image = f.image, !.details = details,
     !.detected = TRUE, !.wrote = <<"ANALYZING", DetectedState>>,
     !.did = <<"detected">>]

CropInit ==
  \E b \in CropBoxes, w \in CropWidths, h \in CropHeights :
    LET f == File(PhotoPng.name, Image("photo", w, h))
        t == DetectedTask(f, DetailsWith(b))
    IN  /\ appState = DetectedState
        /\ sourceImage = f.image
        /\ croppedImage = Null
        /\ garmentDetails = t.details
        /\ currentCrop = Null
        /\ errorMsg = Null
        /\ originalFileName = StripExtension(f.name)
        /\ tasks = <<t>>
        /\ started = 1
        /\ editor = Null
        /\ last = Step("detect", t, FALSE, RemoteJson(t.details))

CropNext ==
  \/ \E i \in DOMAIN tasks, decodes \in BOOLEAN : LoadSettle(i, decodes)
  \/ \E i \in DOMAIN tasks, env \in RenderEnvs : RenderSettle(i, env)

SpecCrop == CropInit /\ [][CropNext]_vars

(***************************************************************************)
(* The editor on its own, on a wide set of inputs: opened on an image with *)
(* a committed crop, with every pointer and slider event and every layout. *)
(***************************************************************************)
SoloImages == {PhotoPng.image, ShirtJpeg.image}
SoloBoxes == {ExampleBox, GarmentBox, Box(0, 0, 1000, 1000)}
SoloPoints == {Point(0, 0), Point(10, 10), Point(30, 5)}
SoloLayouts == {"natural", "half", "none"}
SoloSliderValues == {100, 250, 440, 1000}

SoloInit ==
  \E image \in SoloImages, b \in SoloBoxes :
    LET crop == calculateSmartCrop(b, image.w, image.h)
        output == DataUrl(image, crop, OutputSize)
    IN  /\ appState = "EDITING"
        /\ sourceImage = image
        /\ croppedImage = output
        /\ garmentDetails = DetailsWith(b)
        /\ currentCrop = crop
        /\ errorMsg = Null
        /\ originalFileName = StripExtension(PhotoPng.name)
        /\ tasks = <<>>
        /\ started = 1
        /\ editor = NewEditor(crop, output, MaxSoloEdits)
        /\ last = Step("adjust", Null, FALSE, Null)

SoloNext ==
  \/ onImgLoad
  \/ \E p \in SoloPoints : handleMouseDown(p)
  \/ \E p \in SoloPoints, shown \in SoloLayouts : handleMouseMove(p, shown)
  \/ handleMouseUp
  \/ \E n \in SoloSliderValues : handleSizeChange(n)

SpecEditor == SoloInit /\ [][SoloNext]_vars

(***************************************************************************)
(* Properties                                                              *)
(***************************************************************************)
InRange(b) ==
  /\ 0 <= b.xmin /\ b.xmin < b.xmax /\ b.xmax <= NormScale
  /\ 0 <= b.ymin /\ b.ymin < b.ymax /\ b.ymax <= NormScale

\* twice the center of a rect, in sub-pixel units
Center2(c) == Point(2 * c.x + c.size, 2 * c.y + c.size)

\* C1: for every box with 0 <= xmin < xmax <= 1000 and 0 <= ymin < ymax <=
\* 1000 and every image size, the crop that processImage commits has its
\* center at the box's pixel-space center ((xmin+xmax)/2000 * width,
\* (ymin+ymax)/2000 * height) and size 1.1 * max(pixel width, pixel height);
\* box {ymin:100, xmin:200, ymax:500, xmax:600} on a 1000 x 1000 image gives
\* {x:180, y:80, size:440}.
C1_SmartCropCentered ==
  currentCrop # Null =>
    LET b == garmentDetails.textureBox
        w == sourceImage.w
        h == sourceImage.h
        k == Unit \div NormScale
    IN  /\ InRange(b) =>
             /\ Center2(currentCrop).x = (b.xmin + b.xmax) * w * k
             /\ Center2(currentCrop).y = (b.ymin + b.ymax) * h * k
             /\ 10 * currentCrop.size =
                  11 * Max((b.xmax - b.xmin) * w, (b.ymax - b.ymin) * h) * k
        /\ (b = ExampleBox /\ w = 1000 /\ h = 1000) =>
             currentCrop = Rect(Px(180), Px(80), Px(440))

\* C1's case: the example box on a 1000 x 1000 image has been cropped
C1_Witness ==
  /\ currentCrop = Rect(Px(180), Px(80), Px(440))
  /\ garmentDetails.textureBox = ExampleBox
  /\ sourceImage.w = 1000 /\ sourceImage.h = 1000
  /\ last.op = "load"

\* the slider values the editor offers on the image shown
Offered(values) ==
  {n \in values : SliderMin <= n /\ n <= Max(sourceImage.w, sourceImage.h)}

\* C2: every size-change event leaves the center of the editor's crop
\* unchanged and sets its size; and for every crop the editor reaches and
\* all sizes s1, s2, the size change with s1 and then with s2 gives the
\* crop that the size change with s2 alone gives.
C2_ResizeAroundCenter ==
  /\ [][last'.op = "size" =>
          /\ Center2(editor'.crop) = Center2(editor.crop)
          /\ editor'.crop.size = Px(last'.arg)]_vars
  /\ [](editor # Null =>
          \A s1, s2 \in Offered(SoloSliderValues) :
            Resized(Resized(editor.crop, Px(s1)), Px(s2))
              = Resized(editor.crop, Px(s2)))

\* C2's case: two size changes in a row have changed the size of the crop
\* and left its center where it was when the editor opened
C2_Witness ==
  /\ editor # Null
  /\ last.op = "size"
  /\ editor.left <= MaxSoloEdits - 2
  /\ editor.crop.size # editor.committed.currentCrop.size
  /\ Center2(editor.crop) = Center2(editor.committed.currentCrop)

\* C3: mouse-down captures the pointer position and the crop origin and
\* starts the drag; only mouse-down changes them; and while a drag is in
\* progress a mouse-move to (px, py), with the image displayed rectWidth
\* wide, sets the origin to anchor + ((px, py) - dragStart) * naturalWidth /
\* rectWidth and leaves the size unchanged; a (10, 10) move at scale 2 moves
\* the origin by (20, 20).
C3_DragMovesOrigin ==
  [][/\ last'.op = "mousedown" =>
          /\ editor'.isDragging
          /\ editor'.dragStart = last'.arg
          /\ editor'.startCropPos = Point(editor.crop.x, editor.crop.y)
     /\ (last'.op # "mousedown" /\ editor # Null /\ editor' # Null) =>
          /\ editor'.dragStart = editor.dragStart
          /\ editor'.startCropPos = editor.startCropPos
     /\ (last'.op = "mousemove" /\ editor.isDragging
           /\ last'.arg.rectWidth # 0) =>
          LET p == last'.arg.p
              rw == last'.arg.rectWidth
              dx == p.x - editor.dragStart.x
              dy == p.y - editor.dragStart.y
          IN  /\ (editor'.crop.x - editor.startCropPos.x) * rw
                   = dx * sourceImage.w * Unit
              /\ (editor'.crop.y - editor.startCropPos.y) * rw
                   = dy * sourceImage.w * Unit
              /\ editor'.crop.size = editor.crop.size
              /\ (dx = 10 /\ dy = 10 /\ 2 * rw = sourceImage.w) =>
                   /\ editor'.crop.x = editor.startCropPos.x + Px(20)
                   /\ editor'.crop.y = editor.startCropPos.y + Px(20)
    ]_vars

\* C3's case: a drag by (10, 10) after an earlier change of the crop, with
\* the image displayed at half its natural width, has moved the origin by
\* (20, 20) from the anchor
C3_Witness ==
  /\ editor # Null
  /\ last.op = "mousemove"
  /\ editor.isDragging
  /\ last.arg.p.x - editor.dragStart.x = 10
  /\ last.arg.p.y - editor.dragStart.y = 10
  /\ 2 * last.arg.rectWidth = sourceImage.w
  /\ editor.left = 0
  /\ editor.crop.x = editor.startCropPos.x + Px(20)
  /\ editor.crop.y = editor.startCropPos.y + Px(20)

EditorEvents == {"imgload", "mousedown", "mousemove", "mouseup", "size"}

\* C4, the editor's events: no pointer or slider event of the editor changes
\* currentCrop or croppedImage, and an editor that opens starts from the
\* committed crop.
C4_EditorLeavesCommitted ==
  [][/\ last'.op \in EditorEvents =>
          /\ currentCrop' = currentCrop
          /\ croppedImage' = croppedImage
     /\ (editor = Null /\ editor' # Null) => editor'.crop = currentCrop'
    ]_vars

\* C4: while the editor is open, currentCrop and croppedImage change only
\* when the user confirms (in handleManualCropConfirm or when the render it
\* started settles); Cancel returns the app to SUCCESS with currentCrop and
\* croppedImage as they were when the editor was opened.
C4_CancelRestoresCommitted ==
  [][/\ (editor # Null
           /\ (currentCrop' # currentCrop \/ croppedImage' # croppedImage)) =>
          \/ last'.op = "confirm"
          \/ last'.op = "render" /\ last'.task.kind = "manual"
     /\ last'.op = "cancel" =>
          /\ appState' = "SUCCESS"
          /\ currentCrop' = editor.committed.currentCrop
          /\ croppedImage' = editor.committed.croppedImage
    ]_vars

\* C5: every failure of an attempt puts the app in the ERROR state with a
\* non-null error message.
C5_FailureGivesError ==
  last.failed => (appState = "ERROR" /\ errorMsg # Null)

\* C6: after a failed upload attempt garmentDetails, currentCrop and
\* croppedImage are all null; after a failed manual-crop render currentCrop
\* and croppedImage are the pair committed before the confirm.
C6_NoPartialState ==
  last.failed =>
    IF last.task.kind = "upload"
    THEN garmentDetails = Null /\ currentCrop = Null /\ croppedImage = Null
    ELSE /\ currentCrop = last.task.prev.currentCrop
         /\ croppedImage = last.task.prev.croppedImage

\* the App after a reset
IdleClean ==
  /\ appState = "IDLE"
  /\ sourceImage = Null
  /\ garmentDetails = Null
  /\ currentCrop = Null
  /\ croppedImage = Null
  /\ errorMsg = Null

\* C7: once reset has been pressed with operations in flight, the app stays
\* IDLE with sourceImage, garmentDetails, currentCrop, croppedImage and
\* errorMsg null until the next upload, whatever resolves or fails.
C7_ResetDiscardsStale ==
  [][(IdleClean /\ tasks # <<>> /\ last'.op # "upload") => IdleClean']_vars

IsPrefix(a, b) == Len(a) <= Len(b) /\ SubSeq(b, 1, Len(a)) = a

PipelineStates == <<"ANALYZING", "CROPPING", "SUCCESS">>
PipelineSteps == <<"detected", "cropped", "render", "rendered">>

\* the appStates a pipeline may have set so far: ANALYZING, CROPPING,
\* SUCCESS in that order, cut short by ERROR
OrderedStates(wrote) ==
  \/ IsPrefix(wrote, PipelineStates)
  \/ /\ wrote[Len(wrote)] = "ERROR"
     /\ Len(wrote) <= Len(PipelineStates)
     /\ IsPrefix(SubSeq(wrote, 1, Len(wrote) - 1), PipelineStates)

OrderedTask(t) ==
  t.kind = "upload" =>
    /\ IsPrefix(t.did, PipelineSteps)
    /\ OrderedStates(t.wrote)
    /\ t.crop # Null => t.detected
    /\ t.pc = "render" => (t.detected /\ t.crop # Null)

\* C8: in every upload pipeline detection completes before
\* calculateSmartCrop, which returns before performCrop starts; the pipeline
\* sets appState to ANALYZING, CROPPING, SUCCESS in that order; and the
\* pipeline that sets croppedImage has completed its detection.
C8_PipelineOrdered ==
  /\ \A i \in DOMAIN tasks : OrderedTask(tasks[i])
  /\ last.task # Null =>
       /\ OrderedTask(last.task)
       /\ (last.op = "render" /\ ~last.failed /\ last.task.kind = "upload") =>
            /\ last.task.detected
            /\ last.task.did = PipelineSteps
            /\ last.task.wrote = PipelineStates
            /\ croppedImage = DataUrl(last.task.image, last.task.crop, OutputSize)

\* C8's case: an upload pipeline has run to its end and set croppedImage
C8_Witness ==
  /\ last.op = "render"
  /\ ~last.failed
  /\ last.task.kind = "upload"
  /\ appState = "SUCCESS"
  /\ croppedImage # Null

\* the file whose content an image is
FileOf(image) == CHOOSE f \in Files : f.image = image

\* C9: the download name is the name of the uploaded file that the output
\* was rendered from, without its extension, then "_" and the detected color
\* without the characters outside [a-zA-Z0-9-] when a color is present, then
\* ".jpg".
C9_DownloadName ==
  /\ DownloadName(StripExtension(PhotoPng.name), [color |-> NavyBlue])
       = <<"p","h","o","t","o","_","N","a","v","y","B","l","u","e",
           ".","j","p","g">>
  /\ last.op = "download" =>
       last.arg = DownloadName(StripExtension(FileOf(croppedImage.image).name),
                               garmentDetails)

\* C10: whenever the remote call throws, returns an empty text or returns a
\* text that does not parse, detectGarment rejects with the generic message,
\* and that message, not the original error's, is what processImage catches.
C10_SingleFailureMode ==
  /\ \A r \in Responses :
       r.kind # "json" => detectGarment(r) = Rejected(Error(MsgDetectFailed))
  /\ (last.op = "detect" /\ last.arg.kind # "json") =>
       /\ last.failed
       /\ errorMsg = Text(MsgDetectFailed)
       /\ appState = "ERROR"

\* C10's case: the remote call threw with a message of its own
C10_Witness ==
  /\ last.op = "detect"
  /\ last.arg.kind = "throw"
  /\ last.arg.error # Error(MsgDetectFailed)
  /\ errorMsg = Text(MsgDetectFailed)

(***************************************************************************)
(* Further properties                                                      *)
(***************************************************************************)
\* C11: every CropRect has size > 0: the crop that calculateSmartCrop
\* returns and processImage commits, for every box the detector may return
\* (degenerate and inverted boxes included), and the editor's crop.
C11_SizePositive ==
  /\ currentCrop # Null => currentCrop.size > 0
  /\ editor # Null => editor.crop.size > 0

(***************************************************************************)
(* performCrop pixel by pixel.                                             *)
(*                                                                         *)
(* A surface is a function from the pixels (i, j), 0 <= i, j < n, to       *)
(* colors.  A new canvas is transparent; fillRect with fillStyle #FFFFFF   *)
(* over (0, 0, n, n) makes every pixel white; drawImage with source        *)
(* rectangle (sx, sy, sw, sh) and destination (0, 0, n, n) is the          *)
(* platform's: the source rectangle is clipped to the image and the        *)
(* destination in proportion, so a destination pixel takes the color of    *)
(* the image pixel under its source position when that position is inside  *)
(* the image and keeps its color otherwise; a source rectangle without     *)
(* area draws nothing.  Positions are taken at pixel centers, without      *)
(* smoothing; the explored surfaces are a few pixels wide, where the App   *)
(* asks for OutputSize.                                                    *)
(***************************************************************************)
\* the largest coordinate, image dimension and output size explored
MaxRender == 2

Transparent == [color |-> "transparent"]
White == [color |-> "#FFFFFF"]
\* the color of the image's pixel (u, v)
ImagePixel(image, u, v) == [of |-> image.id, u |-> u, v |-> v]

Pixels(n) == (0 .. n - 1) \X (0 .. n - 1)

\* document.createElement('canvas') with width = height = n
NewCanvas(n) == [p \in Pixels(n) |-> Transparent]

\* a variant of Filled that leaves the canvas as created (not the program's)
Filled_NotAtAll(canvas, n) == canvas

\* ctx.fillStyle = '#FFFFFF'; ctx.fillRect(0, 0, n, n)
Filled(canvas, n) ==
  [p \in DOMAIN canvas |->
     IF p[1] < n /\ p[2] < n THEN White ELSE canvas[p]]

\* twice n times the source coordinate under the center of destination
\* pixel k, for a source interval starting at s of length len
SourcePos2n(s, len, n, k) == 2 * n * s + (2 * k + 1) * len

\* the source position of destination pixel p lies inside the image
InsideImage(image, crop, n, p) ==
  LET px == SourcePos2n(crop.x, crop.size, n, p[1])
      py == SourcePos2n(crop.y, crop.size, n, p[2])
  IN  /\ 0 <= px /\ px < 2 * n * image.w
      /\ 0 <= py /\ py < 2 * n * image.h

\* ctx.drawImage(img, crop.x, crop.y, crop.size, crop.size, 0, 0, n, n)
Drawn(canvas, image, crop, n) ==
  IF crop.size = 0 THEN canvas
  ELSE [p \in DOMAIN canvas |->
          IF InsideImage(image, crop, n, p)
          THEN ImagePixel(image,
                          SourcePos2n(crop.x, crop.size, n, p[1]) \div (2 * n),
                          SourcePos2n(crop.y, crop.size, n, p[2]) \div (2 * n))
          ELSE canvas[p]]

\* the canvas performCrop encodes: created, filled, drawn on
Surface(image, crop, outputSize) ==
  Drawn(Filled(NewCanvas(outputSize), outputSize), image, crop, outputSize)

\* canvas.toDataURL('image/jpeg', 0.95), identified by the surface encoded
Encoded(surface) == [jpeg |-> surface]

\* a variant of performCropPixels that renders the crop the session holds
\* instead of its argument (not the program's)
performCropPixels_OfSession(image, crop, outputSize, env) ==
  IF ~env.decodes THEN Rejected(ErrorEvent)
  ELSE IF ~env.context THEN Rejected(Error(MsgNoContext))
  ELSE Resolved(Encoded(Surface(image, currentCrop, outputSize)))

\* performCrop with the surface worked out
performCropPixels(image, crop, outputSize, env) ==
  IF ~env.decodes THEN Rejected(ErrorEvent)
  ELSE IF ~env.context THEN Rejected(Error(MsgNoContext))
  ELSE Resolved(Encoded(Surface(image, crop, outputSize)))

\* a call of performCrop suspended at its await of loadImage; result is
\* what the call settled with (Null: in flight)
RenderCall(image, crop, outputSize) ==
  [kind |-> "call", pc |-> "render", image |-> image, crop |-> crop,
   outputSize |-> outputSize, result |-> Null]

RenderImages ==
  {Image("tile", w, h) : w \in 1 .. MaxRender, h \in 1 .. MaxRender}
RenderCrops ==
  {Rect(x, y, size) : x \in (0 - MaxRender) .. MaxRender,
                      y \in (0 - MaxRender) .. MaxRender,
                      size \in 0 .. MaxRender + 1}
RenderSizes == 1 .. MaxRender

\* a call of performCrop on its own: the App holds the image and the crop,
\* and the call is in flight
RenderInit ==
  \E image \in RenderImages, crop \in RenderCrops, n \in RenderSizes :
    /\ appState = "CROPPING"
    /\ sourceImage = image
    /\ croppedImage = Null
    /\ garmentDetails = Null
    /\ currentCrop = crop
    /\ errorMsg = Null
    /\ originalFileName = DefaultFileName
    /\ tasks = <<RenderCall(image, crop, n)>>
    /\ started = 1
    /\ editor = Null
    /\ last = NoStep

\* a call settles; the caller keeps what it resolved with in croppedImage
\* or reports that it failed, as handleManualCropConfirm does
CallSettle(i, env) ==
  /\ i \in DOMAIN tasks
  /\ tasks[i].pc = "render"
  /\ LET t == tasks[i]
         r == performCropPixels(t.image, t.crop, t.outputSize, env)
     IN  /\ tasks' = [tasks EXCEPT ![i].pc = "done", ![i].result = r]
         /\ croppedImage' = IF r.ok THEN r.value ELSE croppedImage
         /\ errorMsg' = IF r.ok THEN errorMsg ELSE Text(MsgManual)
         /\ appState' = IF r.ok THEN "SUCCESS" ELSE appState
         /\ last' = Step("call", tasks'[i], ~r.ok, env)
  /\ UNCHANGED <<sourceImage, garmentDetails, currentCrop, originalFileName,
                 started, editor>>

RenderNext == \E i \in DOMAIN tasks, env \in RenderEnvs : CallSettle(i, env)

SpecRender == RenderInit /\ [][RenderNext]_vars

\* the crop's square [x, x + size] x [y, y + size] has no point inside the
\* image
Outside(image, crop) ==
  \/ crop.x + crop.size <= 0 \/ crop.x >= image.w
  \/ crop.y + crop.size <= 0 \/ crop.y >= image.h

\* C12: the surface performCrop produces is outputSize x outputSize; every
\* pixel of it whose source position falls outside the image is white; and
\* when the CropRect lies entirely outside the image every pixel is white.
C12_OutsideIsWhite ==
  (last.op = "call" /\ ~last.failed) =>
    LET t == last.task
        surface == t.result.value.jpeg
    IN  /\ DOMAIN surface = Pixels(t.outputSize)
        /\ \A p \in DOMAIN surface :
             ~InsideImage(t.image, t.crop, t.outputSize, p) =>
               surface[p] = White
        /\ Outside(t.image, t.crop) =>
             \A p \in DOMAIN surface : surface[p] = White

\* C12's case: a crop with area that lies entirely outside the image has
\* been rendered, and every pixel of the surface is white
C12_Witness ==
  /\ last.op = "call" /\ ~last.failed
  /\ last.task.crop.size > 0
  /\ Outside(last.task.image, last.task.crop)
  /\ croppedImage = last.task.result.value
  /\ \A p \in DOMAIN croppedImage.jpeg : croppedImage.jpeg[p] = White

\* C13: the drag is either idle or dragging; mouse-down enters dragging and
\* captures the pointer position and the crop origin; mouse-up returns to
\* idle; no other event changes between the two; and a mouse-move while idle
\* leaves the editor's crop unchanged.
C13_DragStateMachine ==
  [][(editor # Null /\ editor' # Null) =>
       /\ editor'.isDragging \in BOOLEAN
       /\ last'.op = "mousedown" =>
            /\ editor'.isDragging
            /\ editor'.dragStart = last'.arg
            /\ editor'.startCropPos = Point(editor.crop.x, editor.crop.y)
            /\ editor'.crop = editor.crop
       /\ last'.op = "mouseup" =>
            /\ ~editor'.isDragging
            /\ editor'.crop = editor.crop
       /\ editor'.isDragging # editor.isDragging =>
            last'.op \in {"mousedown", "mouseup"}
       /\ (last'.op = "mousemove" /\ ~editor.isDragging) =>
            editor'.crop = editor.crop
    ]_vars

\* C13's case: a mouse-move has arrived while idle, after a drag that moved
\* the crop and the mouse-up that ended it
C13_Witness ==
  /\ editor # Null
  /\ last.op = "mousemove"
  /\ last.arg.rectWidth # 0
  /\ ~editor.isDragging
  /\ editor.left > 0
  /\ editor.crop.size = editor.committed.currentCrop.size
  /\ editor.crop.x # editor.committed.currentCrop.x

(***************************************************************************)
(* performCrop called repeatedly: a caller sets the crop and calls again   *)
(* while earlier calls are in flight or have settled, so that calls with   *)
(* the same arguments settle under different session states.               *)
(***************************************************************************)
\* calls of performCrop in one behaviour
MaxCalls == 3

RepeatImage == Image("tile", 2, 2)
RepeatCrops == {Rect(0, 0, 2), Rect(1, 1, 2), Rect(0 - 1, 0, 1)}
RepeatSize == MaxRender

RepeatInit ==
  \E crop \in RepeatCrops :
    /\ appState = "CROPPING"
    /\ sourceImage = RepeatImage
    /\ croppedImage = Null
    /\ garmentDetails = Null
    /\ currentCrop = crop
    /\ errorMsg = Null
    /\ originalFileName = DefaultFileName
    /\ tasks = <<RenderCall(RepeatImage, crop, RepeatSize)>>
    /\ started = 1
    /\ editor = Null
    /\ last = NoStep

\* setAppState(CROPPING); setCurrentCrop(newCrop); performCrop(sourceImage,
\* newCrop, ...) up to its await
CallStart(crop) ==
  /\ started < MaxCalls
  /\ started' = started + 1
  /\ appState' = "CROPPING"
  /\ currentCrop' = crop
  /\ tasks' = Append(tasks, RenderCall(sourceImage, crop, RepeatSize))
  /\ UNCHANGED <<sourceImage, croppedImage, garmentDetails, errorMsg,
                 originalFileName, editor>>
  /\ last' = Step("start", tasks'[Len(tasks')], FALSE, crop)

RepeatNext ==
  \/ \E crop \in RepeatCrops : CallStart(crop)
  \/ \E i \in DOMAIN tasks, env \in RenderEnvs : CallSettle(i, env)

SpecRepeat == RepeatInit /\ [][RepeatNext]_vars

SameArguments(a, b) ==
  a.image = b.image /\ a.crop = b.crop /\ a.outputSize = b.outputSize

Cropped == last.op = "load" /\ ~last.failed /\ currentCrop = last.task.crop

CroppedBox == TargetBox(last.task.details).value

\* the crop is centered on the center of the box
CenteredOn(crop, b, image) ==
  LET k == Unit \div NormScale
  IN  /\ Center2(crop).x = (b.xmin + b.xmax) * image.w * k
      /\ Center2(crop).y = (b.ymin + b.ymax) * image.h * k

\* C15 as stated: for a degenerate box the size is 1.1 * the pixel extent
\* of the other axis, whatever the detector returned on that axis, and 0 if
\* both axes are degenerate; the square is centered on the box's center.
C15_DegenerateBox ==
  Cropped =>
    LET b == CroppedBox
        image == last.task.image
        k == Unit \div NormScale
    IN  /\ (b.xmin = b.xmax /\ b.ymin # b.ymax) =>
             10 * currentCrop.size = 11 * (b.ymax - b.ymin) * image.h * k
        /\ (b.ymin = b.ymax /\ b.xmin # b.xmax) =>
             10 * currentCrop.size = 11 * (b.xmax - b.xmin) * image.w * k
        /\ (b.xmin = b.xmax /\ b.ymin = b.ymax) => currentCrop.size = 0
        /\ (b.xmin = b.xmax \/ b.ymin = b.ymax) =>
             CenteredOn(currentCrop, b, image)

\* C15, amended: for a degenerate box the size is 1.1 * the pixel extent of
\* the other axis when that axis is not inverted, and 0 when it is inverted
\* or degenerate too; the square is centered on the box's center.
C15_DegenerateBoxClamped ==
  Cropped =>
    LET b == CroppedBox
        image == last.task.image
        k == Unit \div NormScale
    IN  /\ b.xmin = b.xmax =>
             10 * currentCrop.size
               = 11 * Max(0, (b.ymax - b.ymin) * image.h) * k
        /\ b.ymin = b.ymax =>
             10 * currentCrop.size
               = 11 * Max(0, (b.xmax - b.xmin) * image.w) * k
        /\ (b.xmin = b.xmax \/ b.ymin = b.ymax) =>
             CenteredOn(currentCrop, b, image)

\* C15's case: a box of no width and positive height has been cropped, and
\* the size is 1.1 * its pixel height
C15_Witness ==
  /\ Cropped
  /\ CroppedBox.xmin = CroppedBox.xmax
  /\ CroppedBox.ymin < CroppedBox.ymax
  /\ currentCrop.size > 0
  /\ 10 * currentCrop.size
       = 11 * (CroppedBox.ymax - CroppedBox.ymin) * last.task.image.h
            * (Unit \div NormScale)

\* the box the claim C16 names for a detection result: the texture box when
\* the result contains one, the garment box otherwise
PreferredBox(details) ==
  IF "textureBox" \in DOMAIN details THEN details.textureBox ELSE details.box

\* C16: the crop that processImage commits is calculateSmartCrop of the
\* texture box when the detection result contains one and of the garment
\* box only when it does not, with the natural width and height of the
\* uploaded image; and that crop is the one a successful upload has
\* rendered.
C16_TextureBoxPreferred ==
  /\ (last.op = "load" /\ ~last.failed) =>
       currentCrop = calculateSmartCrop(PreferredBox(last.task.details),
                                        last.task.image.w, last.task.image.h)
  /\ (last.op = "render" /\ ~last.failed /\ last.task.kind = "upload") =>
       LET crop == calculateSmartCrop(PreferredBox(last.task.details),
                                      last.task.image.w, last.task.image.h)
       IN  /\ last.task.crop = crop
           /\ croppedImage = DataUrl(last.task.image, crop, OutputSize)

\* C16's case: a detection result with a garment box and a different
\* texture box has been cropped, from the texture box
C16_Witness ==
  /\ Cropped
  /\ last.task.details = DetailsFull
  /\ currentCrop = calculateSmartCrop(ExampleBox, last.task.image.w,
                                      last.task.image.h)
  /\ currentCrop # calculateSmartCrop(GarmentBox, last.task.image.w,
                                      last.task.image.h)

\* C17: every result the session holds was derived from the image held in
\* sourceImage: results are held only with an image; the rendered output is
\* a render of that image; a result that a step has just stored comes from
\* a detection, crop or render of that image; and when a newly read image
\* is taken no result of an earlier image is held.
C17_ResultsOfCurrentUpload ==
  /\ (garmentDetails # Null \/ currentCrop # Null \/ croppedImage # Null) =>
       sourceImage # Null
  /\ croppedImage # Null => croppedImage.image = sourceImage
  /\ (last.op \in {"detect", "load", "render"} /\ ~last.failed) =>
       last.task.image = sourceImage
  /\ (last.op = "read" /\ ~last.failed) =>
       garmentDetails = Null /\ currentCrop = Null /\ croppedImage = Null

(***************************************************************************)
(* The App from the point where an upload has succeeded: the editor,       *)
(* manual crops and their renders, with no further upload and no reset.    *)
(* started counts the manual renders.                                      *)
(***************************************************************************)
\* the upload task of file f as it ended in SUCCESS
SucceededTask(f, details, crop) ==
  Ended([DetectedTask(f, details) EXCEPT
           !.crop = crop,
           !.did = <<"detected", "cropped", "render", "rendered">>],
        "SUCCESS")

ManualInit ==
  \E f \in Files, details \in {DetailsFull, DetailsNoTexture} :
    LET crop == calculateSmartCrop(TargetBox(details).value,
                                   f.image.w, f.image.h)
    IN  /\ appState = "SUCCESS"
        /\ sourceImage = f.image
        /\ croppedImage = DataUrl(f.image, crop, OutputSize)
        /\ garmentDetails = details
        /\ currentCrop = crop
        /\ errorMsg = Null
        /\ originalFileName = StripExtension(f.name)
        /\ tasks = <<>>
        /\ started = 0
        /\ editor = Null
        /\ last = Step("render", SucceededTask(f, details, crop), FALSE,
                       [decodes |-> TRUE, context |-> TRUE])

ManualNext ==
  \/ \E i \in DOMAIN tasks, env \in RenderEnvs : RenderSettle(i, env)
  \/ AdjustCrop
  \/ Cancel
  \/ handleManualCropConfirm
  \/ onImgLoad
  \/ \E p \in DownPoints : handleMouseDown(p)
  \/ \E p \in MovePoints, shown \in Layouts : handleMouseMove(p, shown)
  \/ handleMouseUp
  \/ \E n \in SliderValues : handleSizeChange(n)

SpecManual == ManualInit /\ [][ManualNext]_vars

\* C18: whenever appState is SUCCESS, croppedImage is the render of the
\* committed currentCrop on sourceImage.
C18_SuccessShowsCommitted ==
  appState = "SUCCESS" =>
    croppedImage = DataUrl(sourceImage, currentCrop, OutputSize)

(* ------------------------------------------------------------------ *)
(* The crop editor overlay is rendered only when appState is EDITING   *)
(* and both sourceImage and currentCrop are set.                       *)
EditorDisplayed ==
  appState = "EDITING" /\ sourceImage # Null /\ currentCrop # Null

(* C19: whenever appState is SUCCESS or EDITING, sourceImage,          *)
(* currentCrop and croppedImage are all set, so that in EDITING the    *)
(* crop editor is displayed (and with it its Apply and Cancel).        *)
C19_ResultStatesComplete ==
  /\ appState \in {"SUCCESS", "EDITING"} =>
       sourceImage # Null /\ currentCrop # Null /\ croppedImage # Null
  /\ appState = "EDITING" => EditorDisplayed /\ editor # Null

(* ------------------------------------------------------------------ *)
\* the four coordinates of a BoundingBox
BoxFields == {"ymin", "xmin", "ymax", "xmax"}

\* a value with every member of GarmentDetails: box and textureBox with
\* their four coordinates, texture and color
Complete(details) ==
  /\ {"box", "textureBox", "texture", "color"} \subseteq DOMAIN details
  /\ BoxFields \subseteq DOMAIN details.box
  /\ BoxFields \subseteq DOMAIN details.textureBox

(* C20: detectGarment resolves only with a complete record; a response *)
(* that parses but is not a complete record is rejected with the       *)
(* generic detection failure, so garmentDetails is never set to an     *)
(* incomplete record.                                                  *)
C20_CompleteRecordOnly ==
  /\ (last.op = "detect" /\ ~last.failed) => Complete(last.task.details)
  /\ (last.op = "detect" /\ last.arg.kind = "json"
        /\ ~Complete(last.arg.value)) =>
       /\ last.failed
       /\ errorMsg = Text(MsgDetectFailed)
  /\ garmentDetails # Null => Complete(garmentDetails)

=============================================================================
